---- MODULE Spec2Model ----
(***************************************************************************)
(* MultiUDPMuxDefault (udp_mux_multi.go): an aggregate of UDPMux instances *)
(* with an address index (localAddrToMux) and one round-robin address      *)
(* group per IP (multiPortsAddresses).                                     *)
(*                                                                         *)
(* Spec       the aggregate built by NewMultiUDPMuxDefault, under callers  *)
(*            of GetConn, RemoveConnByUfrag and Close.                     *)
(* SpecListen the same aggregate under one caller of GetListenAddresses,   *)
(*            fresh or with its 32-bit cursors close to their maximum,     *)
(*            while constituents come to listen on other addresses.        *)
(* SpecConc   the same aggregate with goroutines calling                   *)
(*            GetListenAddresses concurrently.                             *)
(* SpecPorts  NewMultiUDPMuxFromPorts, statement by statement.             *)
(*                                                                         *)
(* A runtime panic (a slice index out of range) ends the program: no       *)
(* method of this file recovers from it.  The constituents are distinct    *)
(* UDPMux values, named by their position in the constructor's arguments.  *)
(***************************************************************************)
EXTENDS Integers, Sequences, FiniteSets, TLC

VARIABLES
    reported,             \* what mux.GetListenAddresses() returned to the constructor, per mux
    muxes,                \* MultiUDPMuxDefault.muxes
    localAddrToMux,       \* MultiUDPMuxDefault.localAddrToMux
    multiPortsAddresses,  \* MultiUDPMuxDefault.multiPortsAddresses: [addresses, nextPos]
    priorCalls,           \* GetListenAddresses calls completed before the first modelled one
    returned,             \* per group, what each next() call gave, oldest first
    panicked,             \* a runtime panic has ended the program
    lastCall,             \* the last call on the aggregate, with the delegate calls it made
    callers,              \* SpecConc: per goroutine, its position inside GetListenAddresses
    muxClosed,            \* the constituents Close() was called on
    listening,            \* what each constituent's GetListenAddresses() returns now
    \* NewMultiUDPMuxFromPorts (SpecPorts): its arguments, locals and effects
    pc,                   \* the statement it is at
    ports,                \* the ports argument
    opts,                 \* the opts argument
    params,               \* params
    ips,                  \* ips
    ipIdx, portIdx,       \* positions of the two range loops
    err,                  \* err
    conns,                \* conns
    attempts,             \* every net.ListenUDP call so far: [ip, port, ok]
    closed,               \* the sockets Close was called on, in order
    result                \* what the call returned: [agg, err]

aggVars == <<reported, muxes, localAddrToMux, multiPortsAddresses, priorCalls>>
callVars == <<returned, panicked, lastCall, callers>>
muxVars == <<muxClosed, listening>>
ctorVars == <<pc, ports, opts, params, ips, ipIdx, portIdx, err, conns, attempts,
              closed, result>>
vars == <<reported, muxes, localAddrToMux, multiPortsAddresses, priorCalls,
          returned, panicked, lastCall, callers, muxClosed, listening,
          pc, ports, opts, params, ips, ipIdx, portIdx, err, conns, attempts,
          closed, result>>

----------------------------------------------------------------------------
(* Bounds *)

\* number of multiplexers handed to NewMultiUDPMuxDefault
NumMuxes == 2
\* addresses the multiplexers report, all together
MaxAddrs == 3
\* GetListenAddresses calls made in one run
MaxCalls == 4
\* GetListenAddresses calls each concurrent caller makes
MaxConcCalls == 2
\* ports handed to NewMultiUDPMuxFromPorts
MaxPorts == 3
\* local IPs that localInterfaces finds
MaxIPs == 2

----------------------------------------------------------------------------
(* int32 arithmetic of atomic.Int32 and Go's remainder *)

MaxInt32 == 2147483647
MinInt32 == -MaxInt32 - 1

\* atomic.Int32.Add(1): two's-complement wrap-around, returns the new value
AddInt32(x) == IF x = MaxInt32 THEN MinInt32 ELSE x + 1

\* Go's % truncates toward zero: the result has the sign of the dividend
GoRem(a, n) ==
    IF a >= 0 THEN a % n
    ELSE IF a % n = 0 THEN 0 ELSE (a % n) - n

----------------------------------------------------------------------------
(* Addresses.  A net.UDPAddr is an IP and a port; an IP is a byte slice,   *)
(* 4 bytes long or 16 bytes long (an IPv4 address also has a 16-byte,      *)
(* IPv4-mapped form).  The strings are what the constructor keys on.       *)

Addrs ==
    { [IP |-> [len |-> 4,  host |-> 1], Port |-> 100],
      [IP |-> [len |-> 4,  host |-> 1], Port |-> 200],
      [IP |-> [len |-> 16, host |-> 1], Port |-> 100],
      [IP |-> [len |-> 4,  host |-> 2], Port |-> 300] }

\* net.IP.String(): both forms of an IPv4 address print in dotted decimal
IPString(ip) == <<"ip", ip.host>>

\* net.UDPAddr.String(): JoinHostPort(IP.String(), Port)
AddrString(a) == <<IPString(a.IP), a.Port>>

Ufrags == {"u1", "u2"}

\* absent values: no address, a nil connection, a nil error
NoAddr == [IP |-> [len |-> 0, host |-> 0], Port |-> 0]
NilConn == <<"nil">>
NilErr == <<"nil">>
errNoUDPMuxAvailable == <<"errNoUDPMuxAvailable">>

----------------------------------------------------------------------------
(* NewMultiUDPMuxDefault *)

\* the pairs (mux, addr) in the order the two nested loops visit them
RECURSIVE LoopOrder(_, _)
LoopOrder(reports, m) ==
    IF m > Len(reports) THEN <<>>
    ELSE [i \in 1..Len(reports[m]) |-> [mux |-> m, addr |-> reports[m][i]]]
         \o LoopOrder(reports, m + 1)

\* (mutant) every address is indexed under the last multiplexer
IndexInsert_LastMux(addrToMux, e) == (AddrString(e.addr) :> NumMuxes) @@ addrToMux

\* (mutant) an address string that is indexed already keeps its multiplexer
IndexInsert_FirstWins(addrToMux, e) == addrToMux @@ (AddrString(e.addr) :> e.mux)

\* (mutant) the index keeps one address per multiplexer, the last it reported
IndexInsert_OnePerMux(addrToMux, e) ==
    LET kept == {k \in DOMAIN addrToMux : addrToMux[k] # e.mux} IN
    (AddrString(e.addr) :> e.mux) @@ [k \in kept |-> addrToMux[k]]

\* addrToMux[addr.String()] = mux
IndexInsert(addrToMux, e) == (AddrString(e.addr) :> e.mux) @@ addrToMux

\* (mutant) an address joins the group of its IP at the front
GroupInsert_Prepend(ipToAddrs, e) ==
    LET ip == IPString(e.addr.IP) IN
    IF ip \in DOMAIN ipToAddrs
    THEN [ipToAddrs EXCEPT ![ip] = <<e.addr>> \o @]
    ELSE (ip :> <<e.addr>>) @@ ipToAddrs

\* append to the group of the address's IP, or start that group
GroupInsert(ipToAddrs, e) ==
    LET ip == IPString(e.addr.IP) IN
    IF ip \in DOMAIN ipToAddrs
    THEN [ipToAddrs EXCEPT ![ip] = Append(@, e.addr)]
    ELSE (ip :> <<e.addr>>) @@ ipToAddrs

EmptyMap == [k \in {} |-> k]

\* (mutant) an address is indexed only when it starts the group of its IP
RECURSIVE BuildMaps_IndexNewIPOnly(_, _, _)
BuildMaps_IndexNewIPOnly(pairs, addrToMux, ipToAddrs) ==
    IF pairs = <<>> THEN [addrToMux |-> addrToMux, ipToAddrs |-> ipToAddrs]
    ELSE BuildMaps_IndexNewIPOnly(
             Tail(pairs),
             IF IPString(Head(pairs).addr.IP) \in DOMAIN ipToAddrs THEN addrToMux
             ELSE IndexInsert(addrToMux, Head(pairs)),
             GroupInsert(ipToAddrs, Head(pairs)))

\* the two loops of the constructor over the pairs: both maps are filled per pair
RECURSIVE BuildMaps(_, _, _)
BuildMaps(pairs, addrToMux, ipToAddrs) ==
    IF pairs = <<>> THEN [addrToMux |-> addrToMux, ipToAddrs |-> ipToAddrs]
    ELSE BuildMaps(Tail(pairs), IndexInsert(addrToMux, Head(pairs)),
                   GroupInsert(ipToAddrs, Head(pairs)))

\* the orders in which a range over a Go map may visit its keys
MapOrders(f) ==
    {o \in [1..Cardinality(DOMAIN f) -> DOMAIN f] :
        \A i, j \in DOMAIN o : o[i] = o[j] => i = j}

\* reports[m] is what muxes[m].GetListenAddresses() returns; order is the order in
\* which the range over ipToAddrs visits its keys
NewMultiUDPMuxDefault(reports, order) ==
    LET built == BuildMaps(LoopOrder(reports, 1), EmptyMap, EmptyMap) IN
    [muxes |-> [m \in 1..Len(reports) |-> m],
     localAddrToMux |-> built.addrToMux,
     multiPortsAddresses |->
        [i \in 1..Len(order) |->
            [addresses |-> built.ipToAddrs[order[i]], nextPos |-> 0]]]

IpToAddrs(reports) == BuildMaps(LoopOrder(reports, 1), EmptyMap, EmptyMap).ipToAddrs

----------------------------------------------------------------------------
(* multiPortsAddress.next and the four methods *)

\* addr.addresses[addr.nextPos.Add(1) % int32(len(addr.addresses))]
NextIndex(pos, n) == GoRem(pos, n)

\* (mutant) the incremented cursor is not stored: the increment is lost
next_LostUpdate(mpa) ==
    LET pos == AddInt32(mpa.nextPos)
        idx == NextIndex(pos, Len(mpa.addresses))
        ok  == idx >= 0 /\ idx < Len(mpa.addresses)
    IN [nextPos |-> mpa.nextPos, idx |-> idx, panic |-> ~ok,
        addr |-> IF ok THEN mpa.addresses[idx + 1] ELSE NoAddr]

\* one next() call: the cursor after Add(1), the index, and the address read;
\* an index outside the slice is a runtime panic
next(mpa) ==
    LET pos == AddInt32(mpa.nextPos)
        idx == NextIndex(pos, Len(mpa.addresses))
        ok  == idx >= 0 /\ idx < Len(mpa.addresses)
    IN [nextPos |-> pos, idx |-> idx, panic |-> ~ok,
        addr |-> IF ok THEN mpa.addresses[idx + 1] ELSE NoAddr]

\* the loop of GetListenAddresses from group i on; a panic ends it
\* outs collects what each next() call gave, for the record in returned
RECURSIVE ListenLoop(_, _, _, _)
ListenLoop(mpas, i, addrs, outs) ==
    IF i > Len(mpas)
    THEN [mpas |-> mpas, addrs |-> addrs, outs |-> outs, panic |-> FALSE]
    ELSE LET r == next(mpas[i])
             stepped == [mpas EXCEPT ![i].nextPos = r.nextPos]
             out == [idx |-> r.idx, addr |-> r.addr, panic |-> r.panic]
         IN IF r.panic
            THEN [mpas |-> stepped, addrs |-> addrs, outs |-> Append(outs, out),
                  panic |-> TRUE]
            ELSE ListenLoop(stepped, i + 1, Append(addrs, r.addr), Append(outs, out))


(* The constituents are UDPMux values behind an interface; what a call on   *)
(* one of them returns is the constituent's own business.                   *)

\* mux.GetConn(ufrag, addr): a connection, or an error of the constituent;
\* a constituent that Close() was called on is destroyed and gives no connection
MuxGetConn(m, ufrag, addr, ok) ==
    IF ok /\ m \notin muxClosed
    THEN [conn |-> <<"conn", m, ufrag, addr>>, err |-> NilErr]
    ELSE [conn |-> NilConn, err |-> <<"muxErr", m>>]

\* mux.Close(): nil, or an error of the constituent
MuxClose(m, ok) == IF ok THEN NilErr ELSE <<"closeErr", m>>

\* the constituents destroyed by a sequence of delegate calls
MuxesClosedBy(calls) == {calls[i].mux : i \in {k \in DOMAIN calls : calls[k].op = "Close"}}

NoCall == [op |-> "none", ufrag |-> "none", addr |-> NoAddr, ret |-> <<>>,
           err |-> NilErr, panic |-> FALSE, delegated |-> <<>>]

\* (mutant) an address that is not in the index goes to the first multiplexer
GetConnCall_DefaultMux(index, ufrag, addr, ok) ==
    LET mux == IF AddrString(addr) \in DOMAIN index THEN index[AddrString(addr)] ELSE 1
        r == MuxGetConn(mux, ufrag, addr, ok)
    IN [op |-> "GetConn", ufrag |-> ufrag, addr |-> addr, ret |-> r.conn,
        err |-> r.err, panic |-> FALSE,
        delegated |-> <<[mux |-> mux, op |-> "GetConn", ufrag |-> ufrag,
                         addr |-> addr, result |-> r]>>]

\* GetConn: look the address string up, delegate to the mux found
GetConnCall(index, ufrag, addr, ok) ==
    IF AddrString(addr) \notin DOMAIN index
    THEN [op |-> "GetConn", ufrag |-> ufrag, addr |-> addr, ret |-> NilConn,
          err |-> errNoUDPMuxAvailable, panic |-> FALSE, delegated |-> <<>>]
    ELSE LET mux == index[AddrString(addr)]
             r == MuxGetConn(mux, ufrag, addr, ok)
         IN [op |-> "GetConn", ufrag |-> ufrag, addr |-> addr, ret |-> r.conn,
             err |-> r.err, panic |-> FALSE,
             delegated |-> <<[mux |-> mux, op |-> "GetConn", ufrag |-> ufrag,
                              addr |-> addr, result |-> r]>>]

\* mux.RemoveConnByUfrag(ufrag) returns nothing; held says whether the constituent
\* had a connection for the ufrag to remove
MuxRemoveConnByUfrag(m, ufrag, held) == [removed |-> held]

\* (mutant) only the multiplexers that hold a connection for the ufrag are called
RemoveCall_OnlyHolders(ms, ufrag, held) ==
    [op |-> "RemoveConnByUfrag", ufrag |-> ufrag, addr |-> NoAddr, ret |-> <<>>,
     err |-> NilErr, panic |-> FALSE,
     delegated |-> SelectSeq([i \in 1..Len(ms) |->
                      [mux |-> ms[i], op |-> "RemoveConnByUfrag", ufrag |-> ufrag,
                       addr |-> NoAddr,
                       result |-> MuxRemoveConnByUfrag(ms[i], ufrag, held[i])]],
                    LAMBDA c : c.result.removed)]

\* RemoveConnByUfrag: one call per element of m.muxes, in order
RemoveCall(ms, ufrag, held) ==
    [op |-> "RemoveConnByUfrag", ufrag |-> ufrag, addr |-> NoAddr, ret |-> <<>>,
     err |-> NilErr, panic |-> FALSE,
     delegated |-> [i \in 1..Len(ms) |->
                      [mux |-> ms[i], op |-> "RemoveConnByUfrag", ufrag |-> ufrag,
                       addr |-> NoAddr,
                       result |-> MuxRemoveConnByUfrag(ms[i], ufrag, held[i])]]]

\* (mutant) the loop of Close keeps the first error seen
RECURSIVE CloseLoop_FirstError(_, _, _, _, _)
CloseLoop_FirstError(ms, oks, i, cur, calls) ==
    IF i > Len(ms) THEN [err |-> cur, calls |-> calls]
    ELSE LET e == MuxClose(ms[i], oks[i])
             call == [mux |-> ms[i], op |-> "Close", ufrag |-> "none",
                      addr |-> NoAddr, result |-> e]
         IN CloseLoop_FirstError(ms, oks, i + 1,
                                 IF e # NilErr /\ cur = NilErr THEN e ELSE cur,
                                 Append(calls, call))

\* (mutant) the loop of Close stops at the first multiplexer that fails to close
RECURSIVE CloseLoop_StopAtError(_, _, _, _, _)
CloseLoop_StopAtError(ms, oks, i, cur, calls) ==
    IF i > Len(ms) \/ cur # NilErr THEN [err |-> cur, calls |-> calls]
    ELSE LET e == MuxClose(ms[i], oks[i])
             call == [mux |-> ms[i], op |-> "Close", ufrag |-> "none",
                      addr |-> NoAddr, result |-> e]
         IN CloseLoop_StopAtError(ms, oks, i + 1, e, Append(calls, call))

\* the loop of Close from mux i on: every mux is closed, cur (the variable err)
\* keeps the last error seen; oks[i] says whether the i-th Close succeeds
RECURSIVE CloseLoop(_, _, _, _, _)
CloseLoop(ms, oks, i, cur, calls) ==
    IF i > Len(ms) THEN [err |-> cur, calls |-> calls]
    ELSE LET e == MuxClose(ms[i], oks[i])
             call == [mux |-> ms[i], op |-> "Close", ufrag |-> "none",
                      addr |-> NoAddr, result |-> e]
         IN CloseLoop(ms, oks, i + 1, IF e # NilErr THEN e ELSE cur,
                      Append(calls, call))

\* Close: var err error; the loop; return err
CloseCall(ms, oks) ==
    LET r == CloseLoop(ms, oks, 1, NilErr, <<>>) IN
    [op |-> "Close", ufrag |-> "none", addr |-> NoAddr, ret |-> <<>>,
     err |-> r.err, panic |-> FALSE, delegated |-> r.calls]

\* GetListenAddresses: the addresses collected, or the panic that ended the call
ListenCall(r) ==
    [op |-> "GetListenAddresses", ufrag |-> "none", addr |-> NoAddr,
     ret |-> IF r.panic THEN <<>> ELSE r.addrs, err |-> NilErr, panic |-> r.panic,
     delegated |-> <<>>]

----------------------------------------------------------------------------
(* Spec: the aggregate after construction, under callers of the delegating methods *)

\* what one multiplexer may report: up to k addresses, repeats allowed
Reports(k) == UNION {[1..n -> Addrs] : n \in 0..k}

\* what n multiplexers may report: up to k addresses all together
RECURSIVE AllReports(_, _)
AllReports(n, k) ==
    IF n = 0 THEN {<<>>}
    ELSE UNION {{<<r>> \o rest : rest \in AllReports(n - 1, k - Len(r))} :
                r \in Reports(k)}

\* The cursors of an aggregate on which k GetListenAddresses calls have completed
\* (k <= MaxInt32: every index so far was k' % n with k' >= 0, so none panicked)
AfterCalls(mpas, k) == [i \in DOMAIN mpas |-> [mpas[i] EXCEPT !.nextPos = k]]

\* the aggregate fresh from the constructor, or just short of the cursor's maximum
PriorCalls == {0, MaxInt32 - 1}

InitAggregate ==
    /\ reported \in AllReports(NumMuxes, MaxAddrs)
    /\ priorCalls \in PriorCalls
    /\ \E order \in MapOrders(IpToAddrs(reported)) :
         LET agg == NewMultiUDPMuxDefault(reported, order) IN
         /\ muxes = agg.muxes
         /\ localAddrToMux = agg.localAddrToMux
         /\ multiPortsAddresses = AfterCalls(agg.multiPortsAddresses, priorCalls)
    /\ returned = [i \in DOMAIN multiPortsAddresses |-> <<>>]
    /\ panicked = FALSE
    /\ lastCall = NoCall
    /\ muxClosed = {}
    /\ listening = reported

\* NewMultiUDPMuxFromPorts is not running
NoCtor ==
    /\ pc = "none" /\ ports = <<>> /\ opts = <<>> /\ params = <<>> /\ ips = <<>>
    /\ ipIdx = 0 /\ portIdx = 0 /\ err = NilErr /\ conns = <<>> /\ attempts = <<>>
    /\ closed = <<>> /\ result = <<>>

Init ==
    /\ InitAggregate
    /\ priorCalls = 0
    /\ callers = <<>>
    /\ NoCtor

\* calls of GetListenAddresses made so far in this run
CallsMade == IF multiPortsAddresses = <<>> THEN 0 ELSE Len(returned[1])

GetListenAddresses ==
    /\ ~panicked
    /\ CallsMade < MaxCalls
    /\ LET r == ListenLoop(multiPortsAddresses, 1, <<>>, <<>>) IN
       /\ multiPortsAddresses' = r.mpas
       /\ returned' = [i \in DOMAIN returned |->
                         IF i <= Len(r.outs) THEN Append(returned[i], r.outs[i])
                         ELSE returned[i]]
       /\ panicked' = r.panic
       /\ lastCall' = ListenCall(r)
    /\ UNCHANGED <<reported, muxes, localAddrToMux, priorCalls, callers, muxVars, ctorVars>>

GetConn ==
    /\ ~panicked
    /\ \E ufrag \in Ufrags, addr \in Addrs, ok \in BOOLEAN :
         lastCall' = GetConnCall(localAddrToMux, ufrag, addr, ok)
    /\ UNCHANGED <<aggVars, returned, panicked, callers, muxVars, ctorVars>>

RemoveConnByUfrag ==
    /\ ~panicked
    /\ \E ufrag \in Ufrags, held \in [1..Len(muxes) -> BOOLEAN] :
         lastCall' = RemoveCall(muxes, ufrag, held)
    /\ UNCHANGED <<aggVars, returned, panicked, callers, muxVars, ctorVars>>

Close ==
    /\ ~panicked
    /\ \E oks \in [1..Len(muxes) -> BOOLEAN] : lastCall' = CloseCall(muxes, oks)
    /\ muxClosed' = muxClosed \cup MuxesClosedBy(lastCall'.delegated)
    /\ UNCHANGED <<aggVars, returned, panicked, callers, listening, ctorVars>>

Next == GetConn \/ RemoveConnByUfrag \/ Close

Spec == Init /\ [][Next]_vars

----------------------------------------------------------------------------
(* SpecListen: the aggregate under one caller of GetListenAddresses *)

InitListen ==
    /\ InitAggregate
    /\ callers = <<>>
    /\ NoCtor

\* the report of a constituent whose sockets were bound anew, one port up
Rebound(r) == [i \in DOMAIN r |-> [r[i] EXCEPT !.Port = @ + 1]]

\* a constituent comes to report other listen addresses than it did to the
\* constructor (each constituent once): the aggregate is not told and reads
\* only what it stored
ListenAddressesChange ==
    /\ ~panicked
    /\ \E m \in DOMAIN listening :
         /\ listening[m] = reported[m]
         /\ listening[m] # <<>>
         /\ listening' = [listening EXCEPT ![m] = Rebound(@)]
    /\ UNCHANGED <<aggVars, callVars, muxClosed, ctorVars>>

NextListen == GetListenAddresses \/ ListenAddressesChange

SpecListen == InitListen /\ [][NextListen]_vars

----------------------------------------------------------------------------
(* SpecConc: goroutines calling GetListenAddresses concurrently.  Each       *)
(* iteration of the loop is one step: nextPos.Add(1) is atomic, and the      *)
(* addresses slice it then indexes is never written after construction.      *)

Goroutines == {"g1", "g2"}

\* pos = 0: not in a call; pos = i: about to call next() on group i;
\* pos = Len(multiPortsAddresses) + 1: about to return addrs
Idle == [pos |-> 0, addrs |-> <<>>, calls |-> 0]

InitConc ==
    /\ InitAggregate
    /\ callers = [g \in Goroutines |-> Idle]
    /\ NoCtor

\* addrs := make([]net.Addr, 0, len(m.multiPortsAddresses))
ListenEnter(g) ==
    /\ ~panicked
    /\ callers[g].pos = 0
    /\ callers[g].calls < MaxConcCalls
    /\ callers' = [callers EXCEPT ![g] = [@ EXCEPT !.pos = 1, !.addrs = <<>>]]
    /\ UNCHANGED <<aggVars, returned, panicked, lastCall, muxVars, ctorVars>>

\* addrs = append(addrs, mpa.next())
ListenStep(g) ==
    /\ ~panicked
    /\ callers[g].pos \in DOMAIN multiPortsAddresses
    /\ LET i == callers[g].pos
           r == next(multiPortsAddresses[i])
       IN /\ multiPortsAddresses' = [multiPortsAddresses EXCEPT ![i].nextPos = r.nextPos]
          /\ returned' = [returned EXCEPT ![i] =
                            Append(@, [idx |-> r.idx, addr |-> r.addr, panic |-> r.panic])]
          /\ panicked' = r.panic
          /\ callers' = [callers EXCEPT ![g] =
                            IF r.panic THEN @
                            ELSE [@ EXCEPT !.pos = i + 1, !.addrs = Append(@, r.addr)]]
    /\ UNCHANGED <<reported, muxes, localAddrToMux, priorCalls, lastCall, muxVars, ctorVars>>

\* return addrs
ListenReturn(g) ==
    /\ ~panicked
    /\ callers[g].pos = Len(multiPortsAddresses) + 1
    /\ lastCall' = ListenCall([addrs |-> callers[g].addrs, panic |-> FALSE])
    /\ callers' = [callers EXCEPT ![g] =
                      [pos |-> 0, addrs |-> <<>>, calls |-> @.calls + 1]]
    /\ UNCHANGED <<aggVars, returned, panicked, muxVars, ctorVars>>

NextConc == \E g \in Goroutines : ListenEnter(g) \/ ListenStep(g) \/ ListenReturn(g)

SpecConc == InitConc /\ [][NextConc]_vars

----------------------------------------------------------------------------
(* SpecPorts: NewMultiUDPMuxFromPorts, statement by statement *)

\* UDPMuxFromPortWithNet, UDPMuxFromPortWithBatchWrite,
\* UDPMuxFromPortWithReadBufferSize, UDPMuxFromPortWithWriteBufferSize
NetOption == [kind |-> "net", size |-> 0, interval |-> 0]
BatchOptions == {[kind |-> "batch", size |-> sz, interval |-> iv] :
                    sz \in {-1, 0, 2}, iv \in {0, 5}}
ReadBufferOption == [kind |-> "readBuffer", size |-> 1024, interval |-> 0]
WriteBufferOption == [kind |-> "writeBuffer", size |-> 1024, interval |-> 0]

\* the option lists tried: each kind of option given or not
OptLists ==
    {n \o b \o r \o w :
        n \in {<<>>, <<NetOption>>},
        b \in {<<>>} \cup {<<o>> : o \in BatchOptions},
        r \in {<<>>, <<ReadBufferOption>>},
        w \in {<<>>, <<WriteBufferOption>>}}

\* params as declared: the fields not set are zero (the filters, the networks, the
\* logger and the loopback flag only feed localInterfaces)
DefaultParams ==
    [net |-> "nil", readBufferSize |-> 0, writeBufferSize |-> 0,
     batchWriteSize |-> 0, batchWriteInterval |-> 0]

\* opt.apply(&params)
ApplyOption(p, o) ==
    CASE o.kind = "net" -> [p EXCEPT !.net = "given"]
      [] o.kind = "batch" ->
            [p EXCEPT !.batchWriteSize = o.size, !.batchWriteInterval = o.interval]
      [] o.kind = "readBuffer" -> [p EXCEPT !.readBufferSize = o.size]
      [] o.kind = "writeBuffer" -> [p EXCEPT !.writeBufferSize = o.size]

RECURSIVE ApplyOpts(_, _)
ApplyOpts(p, os) ==
    IF os = <<>> THEN p ELSE ApplyOpts(ApplyOption(p, Head(os)), Tail(os))

PortList(n) == [k \in 1..n |-> 100 * k]
IPList(n) == [k \in 1..n |-> [len |-> 4, host |-> k]]

NetErr == <<"newNetErr">>
IfaceErr == <<"localInterfacesErr">>
ListenErr(k) == <<"listenErr", k>>
\* fmt.Errorf("failed to get create network: %w", err)
WrapNetErr(e) == <<"failed to get create network", e>>

InitPorts ==
    /\ pc = "opts"
    /\ ports \in {PortList(n) : n \in 0..MaxPorts}
    /\ opts \in OptLists
    /\ params = DefaultParams
    /\ ips = <<>> /\ ipIdx = 0 /\ portIdx = 0 /\ err = NilErr
    /\ conns = <<>> /\ attempts = <<>> /\ closed = <<>> /\ result = <<>>
    /\ reported = <<>> /\ muxes = <<>> /\ localAddrToMux = EmptyMap
    /\ multiPortsAddresses = <<>> /\ priorCalls = 0
    /\ returned = <<>> /\ panicked = FALSE /\ lastCall = NoCall /\ callers = <<>>
    /\ muxClosed = {} /\ listening = <<>>

\* for _, opt := range opts { opt.apply(&params) }
ApplyOptions ==
    /\ pc = "opts"
    /\ params' = ApplyOpts(params, opts)
    /\ pc' = "net"
    /\ UNCHANGED <<aggVars, callVars, muxVars, ports, opts, ips, ipIdx, portIdx, err, conns,
                   attempts, closed, result>>

\* if params.net == nil { params.net, err = stdnet.NewNet() ... }
NewNet ==
    /\ pc = "net"
    /\ IF params.net # "nil"
       THEN /\ pc' = "interfaces"
            /\ UNCHANGED <<params, result>>
       ELSE \E ok \in BOOLEAN :
              IF ok
              THEN /\ params' = [params EXCEPT !.net = "stdnet"]
                   /\ pc' = "interfaces"
                   /\ UNCHANGED result
              ELSE /\ result' = [agg |-> "nil", err |-> WrapNetErr(NetErr)]
                   /\ pc' = "done"
                   /\ UNCHANGED params
    /\ UNCHANGED <<aggVars, callVars, muxVars, ports, opts, ips, ipIdx, portIdx, err, conns,
                   attempts, closed>>

\* (mutant) the error of localInterfaces is not checked
AfterInterfaces_Unchecked(e) == "listen"

\* if err != nil { return nil, err }
AfterInterfaces(e) == IF e # NilErr THEN "return" ELSE "listen"

\* where the two range loops stand first: at the first pair, or past the end
LoopStart(is, ps) == IF is = <<>> \/ ps = <<>> THEN "afterloop" ELSE "listen"

\* ips, err := localInterfaces(...); conns := make(...)
\* (localInterfaces is not part of this file: it may fail, and what it returns
\* beside an error is not known)
LocalInterfaces ==
    /\ pc = "interfaces"
    /\ \E n \in 0..MaxIPs, e \in {NilErr, IfaceErr} :
         /\ ips' = IPList(n)
         /\ err' = e
         /\ IF AfterInterfaces(e) = "return"
            THEN /\ result' = [agg |-> "nil", err |-> e]
                 /\ pc' = "done"
                 /\ UNCHANGED <<ipIdx, portIdx>>
            ELSE /\ pc' = LoopStart(ips', ports)
                 /\ ipIdx' = 1 /\ portIdx' = 1
                 /\ UNCHANGED result
    /\ conns' = <<>>
    /\ UNCHANGED <<aggVars, callVars, muxVars, ports, opts, params, attempts, closed>>

\* (mutant) the socket is wrapped only when a write interval is configured too
NewConn_BatchNeedsInterval(p, sock, ip, port) ==
    LET wrap == p.batchWriteSize > 0 /\ p.batchWriteInterval > 0 IN
    [sock |-> sock, addr |-> [IP |-> ip, Port |-> port],
     readBuffer |-> IF p.readBufferSize > 0 THEN p.readBufferSize ELSE 0,
     writeBuffer |-> IF p.writeBufferSize > 0 THEN p.writeBufferSize ELSE 0,
     batch |-> wrap,
     batchSize |-> IF wrap THEN p.batchWriteSize ELSE 0,
     batchInterval |-> IF wrap THEN p.batchWriteInterval ELSE 0]

\* the conn appended for socket sock: the buffer sizes are set when configured
\* (errors ignored), and the socket is wrapped by tudp.NewBatchConn when
\* params.batchWriteSize > 0
NewConn(p, sock, ip, port) ==
    [sock |-> sock, addr |-> [IP |-> ip, Port |-> port],
     readBuffer |-> IF p.readBufferSize > 0 THEN p.readBufferSize ELSE 0,
     writeBuffer |-> IF p.writeBufferSize > 0 THEN p.writeBufferSize ELSE 0,
     batch |-> p.batchWriteSize > 0,
     batchSize |-> IF p.batchWriteSize > 0 THEN p.batchWriteSize ELSE 0,
     batchInterval |-> IF p.batchWriteSize > 0 THEN p.batchWriteInterval ELSE 0]

\* (mutant) a failed open leaves the inner loop only
AfterListenError_InnerBreak(i, j, nIPs, nPorts) ==
    IF i < nIPs THEN [pc |-> "listen", ipIdx |-> i + 1, portIdx |-> 1]
    ELSE [pc |-> "afterloop", ipIdx |-> i, portIdx |-> j]

\* where the loops stand after a failed open: break, then if err != nil { break }
AfterListenError(i, j, nIPs, nPorts) ==
    [pc |-> "afterloop", ipIdx |-> i, portIdx |-> j]

\* (mutant) the loops end with the ports of the first IP
AfterListenOk_FirstIPOnly(i, j, nIPs, nPorts) ==
    IF j < nPorts THEN [pc |-> "listen", ipIdx |-> i, portIdx |-> j + 1]
    ELSE [pc |-> "afterloop", ipIdx |-> i, portIdx |-> j]

\* where the loops stand after a successful open: the next port, else the
\* first port of the next IP, else past both loops
AfterListenOk(i, j, nIPs, nPorts) ==
    IF j < nPorts THEN [pc |-> "listen", ipIdx |-> i, portIdx |-> j + 1]
    ELSE IF i < nIPs THEN [pc |-> "listen", ipIdx |-> i + 1, portIdx |-> 1]
    ELSE [pc |-> "afterloop", ipIdx |-> i, portIdx |-> j]

\* one pass through the body of the inner loop
ListenUDP ==
    /\ pc = "listen"
    /\ \E ok \in BOOLEAN :
         LET sock == Len(attempts) + 1 IN
         /\ attempts' = Append(attempts,
                               [ip |-> ips[ipIdx], port |-> ports[portIdx], ok |-> ok])
         /\ IF ~ok
            THEN \* err = listenErr; break; if err != nil { break }
                 LET to == AfterListenError(ipIdx, portIdx, Len(ips), Len(ports)) IN
                 /\ err' = ListenErr(sock)
                 /\ UNCHANGED conns
                 /\ pc' = to.pc /\ ipIdx' = to.ipIdx /\ portIdx' = to.portIdx
            ELSE LET to == AfterListenOk(ipIdx, portIdx, Len(ips), Len(ports)) IN
                 /\ conns' = Append(conns, NewConn(params, sock, ips[ipIdx], ports[portIdx]))
                 /\ UNCHANGED err
                 /\ pc' = to.pc /\ ipIdx' = to.ipIdx /\ portIdx' = to.portIdx
    /\ UNCHANGED <<aggVars, callVars, muxVars, ports, opts, params, ips, closed, result>>

\* (mutant) the clean-up loop stops one conn short
ConnsToClose_SkipLast(cs) == IF cs = <<>> THEN cs ELSE SubSeq(cs, 1, Len(cs) - 1)

\* for _, conn := range conns
ConnsToClose(cs) == cs

\* if err != nil { ... _ = conn.Close() ... }: closing a conn closes its socket,
\* also through the batching wrapper
CloseConn ==
    /\ pc = "afterloop"
    /\ err # NilErr
    /\ Len(closed) < Len(ConnsToClose(conns))
    /\ closed' = Append(closed, ConnsToClose(conns)[Len(closed) + 1].sock)
    /\ UNCHANGED <<aggVars, callVars, muxVars, pc, ports, opts, params, ips, ipIdx, portIdx,
                   err, conns, attempts, result>>

\* return nil, err
ReturnError ==
    /\ pc = "afterloop"
    /\ err # NilErr
    /\ Len(closed) = Len(ConnsToClose(conns))
    /\ result' = [agg |-> "nil", err |-> err]
    /\ pc' = "done"
    /\ UNCHANGED <<aggVars, callVars, muxVars, ports, opts, params, ips, ipIdx, portIdx,
                   err, conns, attempts, closed>>

\* what the UDPMuxDefault made for a conn reports: the local address of its socket
MuxListenAddresses(conn) == <<conn.addr>>

\* one NewUDPMuxDefault per conn, then return NewMultiUDPMuxDefault(muxes...), nil
BuildAggregate ==
    /\ pc = "afterloop"
    /\ err = NilErr
    /\ reported' = [m \in 1..Len(conns) |-> MuxListenAddresses(conns[m])]
    /\ \E order \in MapOrders(IpToAddrs(reported')) :
         LET agg == NewMultiUDPMuxDefault(reported', order) IN
         /\ muxes' = agg.muxes
         /\ localAddrToMux' = agg.localAddrToMux
         /\ multiPortsAddresses' = agg.multiPortsAddresses
    /\ returned' = [i \in DOMAIN multiPortsAddresses' |-> <<>>]
    /\ listening' = reported'
    /\ result' = [agg |-> "aggregate", err |-> NilErr]
    /\ pc' = "done"
    /\ UNCHANGED <<priorCalls, panicked, lastCall, callers, muxClosed, ports, opts,
                   params, ips, ipIdx, portIdx, err, conns, attempts, closed>>

NextPorts ==
    \/ ApplyOptions \/ NewNet \/ LocalInterfaces \/ ListenUDP
    \/ CloseConn \/ ReturnError \/ BuildAggregate

SpecPorts == InitPorts /\ [][NextPorts]_vars

----------------------------------------------------------------------------
(* Properties of GetListenAddresses and next (SpecListen) *)

ReportedAddrs == UNION {{reported[m][i] : i \in DOMAIN reported[m]} : m \in DOMAIN reported}
ReportedIPs == {IPString(a.IP) : a \in ReportedAddrs}

\* C1: every GetListenAddresses call returns exactly one address for each distinct
\* IP among the addresses reported at construction: as many addresses as distinct
\* IPs, no two of the same IP, each one a reported address.
C1_OnePerDistinctIP ==
    lastCall.op = "GetListenAddresses" =>
        /\ ~lastCall.panic
        /\ Len(lastCall.ret) = Cardinality(ReportedIPs)
        /\ \A i, j \in DOMAIN lastCall.ret :
             IPString(lastCall.ret[i].IP) = IPString(lastCall.ret[j].IP) => i = j
        /\ \A i \in DOMAIN lastCall.ret : lastCall.ret[i] \in ReportedAddrs

\* the calls s .. s+n-1 on a group of n addresses returned every position once
FullCycle(outs, s, n) ==
    /\ \A k \in s..(s + n - 1) : ~outs[k].panic
    /\ {outs[k].idx : k \in s..(s + n - 1)} = 0..(n - 1)

\* C2: for a group of N addresses, any N consecutive next() calls return each
\* member exactly once (a group of one address always returns that address).
C2_ConsecutiveCallsCycle ==
    \A g \in DOMAIN returned :
        LET n == Len(multiPortsAddresses[g].addresses) IN
        \A s \in 1..(Len(returned[g]) - n + 1) : FullCycle(returned[g], s, n)

\* C4: the index next() computes from the cursor lies inside the group, for every
\* value the 32-bit cursor takes, also after it has wrapped around.
C4_IndexInRange ==
    \A g \in DOMAIN multiPortsAddresses :
        LET mpa == multiPortsAddresses[g]
            idx == NextIndex(mpa.nextPos, Len(mpa.addresses))
        IN returned[g] # <<>> => idx >= 0 /\ idx < Len(mpa.addresses)

----------------------------------------------------------------------------
(* Properties of GetConn, RemoveConnByUfrag and Close (Spec) *)

ReportedStrings == {AddrString(a) : a \in ReportedAddrs}

\* the multiplexers that reported an address with this string at construction
Reporters(str) ==
    {m \in DOMAIN reported :
        \E i \in DOMAIN reported[m] : AddrString(reported[m][i]) = str}

\* C5: GetConn with an address no constituent reported at construction fails with
\* errNoUDPMuxAvailable, returns no connection and calls no constituent.
C5_UnknownAddressFails ==
    (lastCall.op = "GetConn" /\ AddrString(lastCall.addr) \notin ReportedStrings) =>
        /\ lastCall.err = errNoUDPMuxAvailable
        /\ lastCall.ret = NilConn
        /\ lastCall.delegated = <<>>

C5_Witness ==
    /\ lastCall.op = "GetConn"
    /\ AddrString(lastCall.addr) \notin ReportedStrings
    /\ ReportedStrings # {}
    /\ lastCall.err = errNoUDPMuxAvailable

\* C6: GetConn with an address that is in the index calls GetConn, with the same
\* ufrag and address, on exactly one constituent, one that reported that address
\* at construction, and returns that call's result unchanged.
C6_KnownAddressDelegates ==
    (lastCall.op = "GetConn" /\ AddrString(lastCall.addr) \in DOMAIN localAddrToMux) =>
        /\ Len(lastCall.delegated) = 1
        /\ LET c == lastCall.delegated[1] IN
           /\ c.op = "GetConn"
           /\ c.mux \in Reporters(AddrString(lastCall.addr))
           /\ c.ufrag = lastCall.ufrag
           /\ c.addr = lastCall.addr
           /\ lastCall.ret = c.result.conn
           /\ lastCall.err = c.result.err

\* the second multiplexer is called for an address only it reported, and its
\* connection comes back
C6_Witness ==
    /\ lastCall.op = "GetConn"
    /\ Reporters(AddrString(lastCall.addr)) = {2}
    /\ Reporters(<<<<"ip", 1>>, 100>>) = {1}
    /\ Len(lastCall.delegated) = 1
    /\ lastCall.delegated[1].mux = 2
    /\ lastCall.ret = <<"conn", 2, lastCall.ufrag, lastCall.addr>>

\* C7: RemoveConnByUfrag calls RemoveConnByUfrag with the same ufrag on every
\* constituent exactly once, whether or not it holds a connection for the ufrag.
C7_RemoveCallsEveryMuxOnce ==
    lastCall.op = "RemoveConnByUfrag" =>
        /\ \A m \in 1..Len(muxes) :
             Cardinality({i \in DOMAIN lastCall.delegated :
                            lastCall.delegated[i].mux = muxes[m]}) = 1
        /\ \A i \in DOMAIN lastCall.delegated :
             /\ lastCall.delegated[i].op = "RemoveConnByUfrag"
             /\ lastCall.delegated[i].ufrag = lastCall.ufrag

\* one constituent held a connection for the ufrag and another did not
C7_Witness ==
    /\ lastCall.op = "RemoveConnByUfrag"
    /\ Len(lastCall.delegated) = Len(muxes)
    /\ \E i, j \in DOMAIN lastCall.delegated :
         lastCall.delegated[i].result.removed /\ ~lastCall.delegated[j].result.removed

\* the constituents whose Close failed, by position
CloseFailed == {i \in DOMAIN lastCall.delegated : lastCall.delegated[i].result # NilErr}
LastOf(S) == CHOOSE i \in S : \A j \in S : j <= i

\* C8: Close calls Close on every constituent, in order, also after a failure;
\* it returns nil exactly when no Close failed, and otherwise the error of the
\* last constituent whose Close failed.
C8_CloseAllLastErrorWins ==
    lastCall.op = "Close" =>
        /\ Len(lastCall.delegated) = Len(muxes)
        /\ \A i \in DOMAIN lastCall.delegated :
             lastCall.delegated[i].mux = muxes[i] /\ lastCall.delegated[i].op = "Close"
        /\ (lastCall.err = NilErr) <=> (CloseFailed = {})
        /\ CloseFailed # {} => lastCall.err = lastCall.delegated[LastOf(CloseFailed)].result

\* the first Close failed, a later one was still made and failed too, and the later
\* error is the one returned
C8_Witness ==
    /\ lastCall.op = "Close"
    /\ 1 \in CloseFailed
    /\ Cardinality(CloseFailed) > 1
    /\ lastCall.err # lastCall.delegated[1].result
    /\ lastCall.err = lastCall.delegated[Len(muxes)].result

----------------------------------------------------------------------------
(* Properties of concurrent GetListenAddresses callers (SpecConc) *)

\* the cursor after j increments of a 32-bit counter that stood at c0 >= 0
SeqCursor(c0, j) ==
    IF j <= MaxInt32 - c0 THEN c0 + j
    ELSE MinInt32 + (j - (MaxInt32 - c0) - 1)

\* how many of the first k calls made one after another return position p
SeqCount(c0, k, n, p) == Cardinality({j \in 1..k : GoRem(SeqCursor(c0, j), n) = p})

\* how many of the calls recorded in log returned position p
LogCount(log, p) == Cardinality({j \in DOMAIN log : ~log[j].panic /\ log[j].idx = p})

\* C3: under any interleaving, once k next() calls have run on a group of N
\* addresses the cursor has advanced by exactly k and the addresses returned are,
\* as a multiset, those of k calls made one after another (each member k/N times
\* when k is a multiple of N).
C3_NoLostIncrement ==
    \A g \in DOMAIN multiPortsAddresses :
        LET mpa == multiPortsAddresses[g]
            n == Len(mpa.addresses)
            k == Len(returned[g])
        IN /\ mpa.nextPos = SeqCursor(priorCalls, k)
           /\ \A p \in 0..(n - 1) :
                /\ LogCount(returned[g], p) = SeqCount(priorCalls, k, n, p)
                /\ k % n = 0 => LogCount(returned[g], p) = k \div n
           /\ \A j \in DOMAIN returned[g] :
                ~returned[g][j].panic =>
                    returned[g][j].addr = mpa.addresses[returned[g][j].idx + 1]

\* both goroutines are inside their first call at once and have each called next()
\* on a group of two addresses
C3_Witness ==
    /\ \A c \in Goroutines : callers[c].calls = 0 /\ callers[c].pos > 1
    /\ \E g \in DOMAIN multiPortsAddresses :
         /\ Len(multiPortsAddresses[g].addresses) = 2
         /\ Len(returned[g]) = 2
         /\ returned[g][1].idx # returned[g][2].idx

----------------------------------------------------------------------------
(* Properties of NewMultiUDPMuxFromPorts (SpecPorts) *)

Opened == {k \in DOMAIN attempts : attempts[k].ok}
Failed == {k \in DOMAIN attempts : ~attempts[k].ok}
Closed == {closed[k] : k \in DOMAIN closed}

\* C9: when a socket-open attempt fails, the call returns an error and no
\* aggregate, and every socket opened earlier in the call has been closed by then
\* (and nothing else has).
C9_FailedOpenClosesOpened ==
    (pc = "done" /\ Failed # {}) =>
        /\ result.agg = "nil"
        /\ result.err # NilErr
        /\ muxes = <<>>
        /\ Closed = Opened
        /\ Len(closed) = Cardinality(Opened)

\* the third of at least five planned open attempts failed, and exactly the first
\* two sockets were closed
C9_Witness ==
    /\ pc = "done"
    /\ Len(ips) * Len(ports) >= 5
    /\ Failed = {3}
    /\ closed = <<1, 2>>
    /\ result.agg = "nil"

\* C10: if localInterfaces fails, or stdnet.NewNet fails, the call returns that
\* error and has not tried to open any socket.
C10_ResolutionFailureOpensNothing ==
    /\ (pc = "done" /\ err = IfaceErr) =>
            result = [agg |-> "nil", err |-> IfaceErr] /\ attempts = <<>>
    /\ (pc = "done" /\ params.net = "nil") =>
            result = [agg |-> "nil", err |-> WrapNetErr(NetErr)] /\ attempts = <<>>

\* localInterfaces failed although it found IPs, ports were asked for, and no
\* socket was tried
C10_Witness ==
    /\ pc = "done"
    /\ result.err = IfaceErr
    /\ ips # <<>> /\ ports # <<>>
    /\ attempts = <<>>

----------------------------------------------------------------------------
(* Properties of the aggregate after Close (Spec) *)

\* Close has been called on the aggregate: it calls Close() on every constituent
AggregateClosed == \E m \in DOMAIN muxes : muxes[m] \in muxClosed

\* C11: once Close has been called on the aggregate, every GetConn call, for
\* any ufrag and any address, returns no connection and an error.
C11_NoConnAfterClose ==
    (AggregateClosed /\ lastCall.op = "GetConn") =>
        /\ lastCall.ret = NilConn
        /\ lastCall.err # NilErr
        /\ \A i \in DOMAIN lastCall.delegated :
              lastCall.delegated[i].result.conn = NilConn

\* a GetConn after Close that reached a constituent, for an address indexed to
\* the last multiplexer
C11_Witness ==
    /\ AggregateClosed
    /\ lastCall.op = "GetConn"
    /\ Len(lastCall.delegated) = 1
    /\ lastCall.delegated[1].mux = muxes[Len(muxes)]

----------------------------------------------------------------------------
(* Properties of the address index (SpecListen, Spec) *)

\* the address strings the constituents report now
ListeningStrings ==
    UNION {{AddrString(listening[m][i]) : i \in DOMAIN listening[m]} :
           m \in DOMAIN listening}

\* C12: in every state after construction the keys of localAddrToMux are exactly
\* the strings of the addresses the constituents reported to the constructor, and
\* each key maps to a constituent that reported an address with that string,
\* whatever the constituents have come to report since.
C12_IndexIsWhatWasReported ==
    /\ DOMAIN localAddrToMux = ReportedStrings
    /\ \A str \in DOMAIN localAddrToMux :
          \E m \in Reporters(str) : localAddrToMux[str] = muxes[m]

\* constituents report now an address that is not indexed and no longer one
\* that is, after calls on the aggregate
C12_Witness ==
    /\ ListeningStrings \ DOMAIN localAddrToMux # {}
    /\ DOMAIN localAddrToMux \ ListeningStrings # {}
    /\ CallsMade > 0
    /\ C12_IndexIsWhatWasReported

\* the multiplexer that comes last in the constructor's arguments among those
\* that reported an address with this string
LastReporter(str) == CHOOSE m \in Reporters(str) : \A o \in Reporters(str) : o <= m

\* C13: an address string that several multiplexers reported is indexed to the
\* one that comes last in the constructor's arguments, and a GetConn for an
\* address with that string is delegated to that multiplexer and to no other.
C13_LaterReporterWins ==
    /\ \A str \in DOMAIN localAddrToMux : localAddrToMux[str] = muxes[LastReporter(str)]
    /\ (lastCall.op = "GetConn" /\ AddrString(lastCall.addr) \in ReportedStrings) =>
          /\ Len(lastCall.delegated) = 1
          /\ lastCall.delegated[1].mux = muxes[LastReporter(AddrString(lastCall.addr))]

\* a GetConn for an address that two multiplexers reported
C13_Witness ==
    /\ lastCall.op = "GetConn"
    /\ Cardinality(Reporters(AddrString(lastCall.addr))) >= 2
    /\ Len(lastCall.delegated) = 1
    /\ \E m \in Reporters(AddrString(lastCall.addr)) : lastCall.delegated[1].mux # muxes[m]

----------------------------------------------------------------------------
(* What the methods change (SpecListen, Spec) *)

\* every group keeps its addresses and its cursor moves on by one (as an int32)
CursorsAdvanced ==
    /\ Len(multiPortsAddresses') = Len(multiPortsAddresses)
    /\ \A i \in DOMAIN multiPortsAddresses :
          /\ multiPortsAddresses'[i].addresses = multiPortsAddresses[i].addresses
          /\ multiPortsAddresses'[i].nextPos = AddInt32(multiPortsAddresses[i].nextPos)

\* C14: GetConn, RemoveConnByUfrag and Close leave localAddrToMux, muxes and every
\* group's addresses and cursor as they were; a GetListenAddresses call leaves
\* localAddrToMux, muxes and every group's addresses as they were and moves the
\* cursor of every group on by exactly one.
C14_OnlyCursorsChange ==
    [][/\ (GetConn \/ RemoveConnByUfrag \/ Close) =>
             UNCHANGED <<muxes, localAddrToMux, multiPortsAddresses>>
       /\ GetListenAddresses =>
             (UNCHANGED <<muxes, localAddrToMux>> /\ CursorsAdvanced)]_vars

----------------------------------------------------------------------------
(* Properties of the socket loops of NewMultiUDPMuxFromPorts (SpecPorts) *)

\* the pair the k-th pass of the loops is for: ips outside, ports inside
PlannedPair(k) ==
    [ip |-> ips[((k - 1) \div Len(ports)) + 1], port |-> ports[((k - 1) % Len(ports)) + 1]]

\* the attempts so far are the first pairs of the cross product, in loop order
AttemptsInLoopOrder ==
    \A k \in DOMAIN attempts :
        attempts[k].ip = PlannedPair(k).ip /\ attempts[k].port = PlannedPair(k).port

\* the IPs were resolved: neither stdnet.NewNet nor localInterfaces failed
Resolved == params.net # "nil" /\ err # IfaceErr

\* C15: the sockets are opened one after the other in loop order; a failed
\* attempt is the last attempt of the call, whatever ports of the same IP and
\* whatever IPs remain, and the error returned is the error of that attempt.
C15_StopsAtFirstFailure ==
    /\ AttemptsInLoopOrder
    /\ \A k \in Failed : k = Len(attempts)
    /\ (pc = "done" /\ Failed # {}) =>
          \E k \in Failed : result = [agg |-> "nil", err |-> ListenErr(k)]

\* the second attempt failed with ports of its IP and another IP still to go,
\* and the call has returned
C15_Witness ==
    /\ pc = "done"
    /\ Len(ips) >= 2 /\ Len(ports) >= 3
    /\ Len(attempts) = 2
    /\ Failed = {2}
    /\ result.err = ListenErr(2)

\* C16: when the IPs were resolved and every open succeeds, the call has made one
\* attempt per pair of the cross product of ips and ports, has closed no socket,
\* and returns an aggregate with one multiplexer per socket, each on the address
\* of its socket: Len(ips) * Len(ports) multiplexers.
C16_AllOpenedAllKept ==
    (pc = "done" /\ Resolved /\ Failed = {}) =>
        /\ Len(attempts) = Len(ips) * Len(ports)
        /\ AttemptsInLoopOrder
        /\ closed = <<>>
        /\ result = [agg |-> "aggregate", err |-> NilErr]
        /\ Len(conns) = Len(attempts)
        /\ Len(muxes) = Len(ips) * Len(ports)
        /\ \A m \in DOMAIN muxes :
              /\ conns[m].sock = m
              /\ reported[m] = <<[IP |-> attempts[m].ip, Port |-> attempts[m].port]>>

\* two IPs and three ports, six sockets, six multiplexers
C16_Witness ==
    /\ pc = "done"
    /\ Len(ips) = 2 /\ Len(ports) = 3
    /\ Failed = {}
    /\ Len(muxes) = 6
    /\ closed = <<>>

\* the batch option that counts among the options given: the last one
GivenBatch ==
    LET bs == SelectSeq(opts, LAMBDA o : o.kind = "batch") IN
    IF bs = <<>> THEN [kind |-> "batch", size |-> 0, interval |-> 0] ELSE bs[Len(bs)]

\* C17: every socket opened is wrapped by the batching conn exactly when the
\* batch write size given is positive, with the interval given, whatever it is;
\* with a size of zero or less, or no batch option, none is wrapped.
C17_BatchIffSizePositive ==
    \A k \in DOMAIN conns :
        /\ conns[k].batch <=> GivenBatch.size > 0
        /\ conns[k].batch =>
              /\ conns[k].batchSize = GivenBatch.size
              /\ conns[k].batchInterval = GivenBatch.interval

\* a socket wrapped although the interval given is zero
C17_Witness ==
    /\ conns # <<>>
    /\ conns[1].batch
    /\ GivenBatch.size > 0
    /\ GivenBatch.interval = 0

----------------------------------------------------------------------------
(* Properties tying the groups to the index and to the reports (SpecListen, Spec) *)

\* the addresses GetListenAddresses calls have returned so far
ReturnedAddrs ==
    UNION {{returned[i][j].addr : j \in {k \in DOMAIN returned[i] : ~returned[i][k].panic}} :
           i \in DOMAIN returned}

\* C18: every address a GetListenAddresses call has returned is a key of
\* localAddrToMux (by its string), so a GetConn with it, for any ufrag, is
\* delegated to a multiplexer and does not fail with errNoUDPMuxAvailable.
C18_ReturnedAddressesAreIndexed ==
    \A addr \in ReturnedAddrs :
        /\ AddrString(addr) \in DOMAIN localAddrToMux
        /\ \A ufrag \in Ufrags, ok \in BOOLEAN :
              LET call == GetConnCall(localAddrToMux, ufrag, addr, ok) IN
              /\ call.err # errNoUDPMuxAvailable
              /\ Len(call.delegated) = 1

\* calls have returned two addresses of one group, one of them an address its
\* multiplexer no longer listens on
C18_Witness ==
    /\ \E i \in DOMAIN returned :
          /\ Len(returned[i]) >= 2
          /\ ~returned[i][1].panic /\ ~returned[i][2].panic
          /\ returned[i][1].addr # returned[i][2].addr
    /\ \E addr \in ReturnedAddrs : AddrString(addr) \notin ListeningStrings

\* the reports one after the other, in the order of the constructor's arguments
RECURSIVE ReportedInOrder(_)
ReportedInOrder(m) ==
    IF m > Len(reported) THEN <<>> ELSE reported[m] \o ReportedInOrder(m + 1)

\* the IP of a group: the IP string of its first address
GroupIP(i) == IPString(multiPortsAddresses[i].addresses[1].IP)

\* C19: the groups partition the reported addresses by IP: no group is empty,
\* the addresses of a group have one IP, no two groups have the same IP, every
\* reported IP has its group, and a group holds every reported occurrence of an
\* address of its IP (as often as it was reported) in the order of the reports.
C19_GroupsPartitionByIP ==
    /\ \A i \in DOMAIN multiPortsAddresses :
          LET as == multiPortsAddresses[i].addresses IN
          /\ as # <<>>
          /\ \A j \in DOMAIN as : IPString(as[j].IP) = GroupIP(i)
          /\ as = SelectSeq(ReportedInOrder(1), LAMBDA a : IPString(a.IP) = GroupIP(i))
    /\ \A i, k \in DOMAIN multiPortsAddresses : GroupIP(i) = GroupIP(k) => i = k
    /\ {GroupIP(i) : i \in DOMAIN multiPortsAddresses} = ReportedIPs

\* two groups, one of them holding twice an address that was reported twice,
\* on an aggregate that has been used
C19_Witness ==
    /\ Len(multiPortsAddresses) = 2
    /\ \E i \in DOMAIN multiPortsAddresses :
          LET as == multiPortsAddresses[i].addresses IN
          Len(as) = 2 /\ as[1] = as[2]
    /\ lastCall.op = "Close"
====
